---- MODULE Spec2Model ----
(***************************************************************************)
(* A model of the 389-ds access-log analyser: the line parser of           *)
(* src/src/log_parser.py, the session builder of src/src/data_model.py     *)
(* (build_data_model, Connection.add_operation) and the two connection     *)
(* views of src/src/cli.py.                                                *)
(*                                                                         *)
(* Spec is build_data_model reading a log line by line.  SpecMessage and   *)
(* SpecTimestamp call parse_key_value_message and parse_timestamp on their *)
(* own, on one argument drawn from a set of texts.                         *)
(*                                                                         *)
(* Python values are modelled as follows.                                  *)
(*   None          [ty |-> "none"]                                         *)
(*   int n         [ty |-> "int", n |-> n]                                 *)
(*   str           [ty |-> "str", s |-> <<"a", "b">>]  (its characters)    *)
(*   datetime      [ty |-> "dt", y, mo, d, h, mi, s, us, off]  (off: the   *)
(*                 utc offset in minutes)                                  *)
(*   dict          a function whose DOMAIN is the set of keys              *)
(***************************************************************************)
EXTENDS Integers, Sequences, FiniteSets, TLC

VARIABLES
    connections,   \* build_data_model's `connections` dict: conn id -> Connection
    clean,         \* the same pass over the lines that parse, the others left out
    nlines,        \* the number of lines read from the file so far
    dropped,       \* the number of lines read so far that were error lines
    last,          \* the last line read (NoLine before the first)
    arg,           \* the argument of a parser function called on its own
    ret            \* what that call returned (Pending before the call)

vars == <<connections, clean, nlines, dropped, last, arg, ret>>

(***************************************************************************)
(* Bounds.                                                                 *)
(***************************************************************************)
MaxLines == 3
MaxHead == 2      \* words of free text before the rest of a message
MaxFrac == 7      \* digits of a timestamp's fraction

None == [ty |-> "none"]
IntV(k) == [ty |-> "int", n |-> k]
StrV(chars) == [ty |-> "str", s |-> chars]

\* dict.get(key): the value, or None when the key is absent.
Get(d, key) == IF key \in DOMAIN d THEN d[key] ELSE None

\* d[key] = value on a dict.
Put(d, key, value) == [k \in DOMAIN d \cup {key} |-> IF k = key THEN value ELSE d[k]]

EmptyDict == [k \in {} |-> None]

(***************************************************************************)
(* parse_timestamp.  A timestamp text is given by the groups TIMESTAMP_RE  *)
(* finds in it: re says whether the text matches the expression at all,    *)
(* day .. second are the numbers the digit groups spell, mon is the        *)
(* \w{3} group, frac the digits after the dot (<<>>: no fraction), and tz  *)
(* the zone group: "Z", "z", or a sign with HH and MM.                     *)
(***************************************************************************)
Digits == {"0", "1", "2", "3", "4", "5", "6", "7", "8", "9"}

DigitVal(c) ==
    CASE c = "0" -> 0 [] c = "1" -> 1 [] c = "2" -> 2 [] c = "3" -> 3
      [] c = "4" -> 4 [] c = "5" -> 5 [] c = "6" -> 6 [] c = "7" -> 7
      [] c = "8" -> 8 [] c = "9" -> 9

\* int() of a run of decimal digits.
RECURSIVE IntOfDigits(_)
IntOfDigits(cs) ==
    IF cs = <<>> THEN 0
    ELSE 10 * IntOfDigits(SubSeq(cs, 1, Len(cs) - 1)) + DigitVal(cs[Len(cs)])

\* str.capitalize() on the three-letter month group, for the spellings used here.
Capitalize(m) ==
    CASE m \in {"jun", "JUN", "Jun", "jUN"} -> "Jun"
      [] m \in {"feb", "FEB", "Feb"} -> "Feb"
      [] m \in {"dec", "DEC", "Dec"} -> "Dec"
      [] OTHER -> m

\* MONTH_MAP.get(name): 0 stands for the None of a missing key (both are falsy).
MONTH_MAP(name) ==
    CASE name = "Jan" -> 1 [] name = "Feb" -> 2 [] name = "Mar" -> 3
      [] name = "Apr" -> 4 [] name = "May" -> 5 [] name = "Jun" -> 6
      [] name = "Jul" -> 7 [] name = "Aug" -> 8 [] name = "Sep" -> 9
      [] name = "Oct" -> 10 [] name = "Nov" -> 11 [] name = "Dec" -> 12
      [] OTHER -> 0

IsLeap(y) == (y % 4 = 0 /\ y % 100 # 0) \/ y % 400 = 0

DaysInMonth(y, m) ==
    CASE m \in {1, 3, 5, 7, 8, 10, 12} -> 31
      [] m \in {4, 6, 9, 11} -> 30
      [] OTHER -> IF IsLeap(y) THEN 29 ELSE 28

\* sec_frac_str = fractional[1:7]; int(sec_frac_str.ljust(6, '0'))
RECURSIVE Ljust6(_)
Ljust6(cs) == IF Len(cs) >= 6 THEN cs ELSE Ljust6(Append(cs, "0"))

Microsecond(frac) ==
    IF frac = <<>> THEN 0
    ELSE IntOfDigits(Ljust6(SubSeq(frac, 1, IF Len(frac) < 6 THEN Len(frac) ELSE 6)))

\* datetime(...) raises ValueError for a field out of its range.
DatetimeRaises(y, mo, d, h, mi, s) ==
    \/ y < 1
    \/ d < 1
    \/ d > DaysInMonth(y, mo)
    \/ h > 23
    \/ mi > 59
    \/ s > 59

\* TzOffset without offset_sign (a fault): every offset counts as east of UTC.
TzOffset_NoSign(tz) == IF tz.z THEN 0 ELSE tz.hh * 60 + tz.mm

\* The offset of a zone group in minutes: timedelta(hours, minutes) * sign.
TzOffset(tz) == IF tz.z THEN 0 ELSE tz.sign * (tz.hh * 60 + tz.mm)

\* timezone(offset) raises ValueError unless -24 h < offset < 24 h.
TimezoneRaises(tz) == ~ (-1440 < TzOffset(tz) /\ TzOffset(tz) < 1440)

Raise == [ty |-> "raise"]

\* No call made yet.
Pending == [ty |-> "pending"]

parse_timestamp(ts) ==
    IF ~ ts.re THEN None
    ELSE LET month == MONTH_MAP(Capitalize(ts.mon))
         IN IF month = 0 THEN None
            ELSE IF DatetimeRaises(ts.year, month, ts.day, ts.hour, ts.minute, ts.second)
                 THEN Raise
            ELSE IF TimezoneRaises(ts.tz) THEN Raise
            ELSE [ty |-> "dt", y |-> ts.year, mo |-> month, d |-> ts.day,
                  h |-> ts.hour, mi |-> ts.minute, s |-> ts.second,
                  us |-> Microsecond(ts.frac), off |-> TzOffset(ts.tz)]

\* date.toordinal(): the day's number, 1 for 1 January of year 1.
RECURSIVE DaysBeforeMonth(_, _)
DaysBeforeMonth(y, m) ==
    IF m = 1 THEN 0 ELSE DaysBeforeMonth(y, m - 1) + DaysInMonth(y, m - 1)

ToOrdinal(y, m, d) ==
    LET p == y - 1
    IN p * 365 + (p \div 4) - (p \div 100) + (p \div 400) + DaysBeforeMonth(y, m) + d

\* The instant of an aware datetime, as its UTC minute with the second and
\* microsecond: the wall clock less the utc offset.
UtcInstant(dt) ==
    <<(ToOrdinal(dt.y, dt.mo, dt.d) * 24 + dt.h) * 60 + dt.mi - dt.off, dt.s, dt.us>>

\* a == b on two aware datetimes: they compare by instant, not by fields.
DatetimeEq(a, b) == UtcInstant(a) = UtcInstant(b)

(***************************************************************************)
(* Strings.  A Python string is a sequence of chunks: a chunk is one       *)
(* decimal digit, "-", " ", or a run of other characters taken whole       *)
(* ("BIND", "uid=test").  A message is the sequence of its tokens, which   *)
(* single spaces separate: a key=value match of kv_pattern                 *)
(* ([kv |-> TRUE, k, v, q]: v the value without its quotes, q whether it   *)
(* was double-quoted) or a word of other text ([kv |-> FALSE, w]).         *)
(***************************************************************************)
S(w) == StrV(<<w>>)

KV(key, chars, quoted) == [kv |-> TRUE, k |-> key, v |-> chars, q |-> quoted]
W(chars) == [kv |-> FALSE, w |-> chars]

\* str.isdigit()
IsDigit(s) == s # <<>> /\ \A i \in 1..Len(s) : s[i] \in Digits

\* str.strip(), str.lstrip(chars)
RECURSIVE LStrip(_, _)
LStrip(s, chars) ==
    IF s # <<>> /\ s[1] \in chars THEN LStrip(Tail(s), chars) ELSE s

RECURSIVE RStrip(_, _)
RStrip(s, chars) ==
    IF s # <<>> /\ s[Len(s)] \in chars
    THEN RStrip(SubSeq(s, 1, Len(s) - 1), chars) ELSE s

Strip(s) == RStrip(LStrip(s, {" "}), {" "})

\* " ".join(parts)
RECURSIVE Join(_)
Join(parts) ==
    IF parts = <<>> THEN <<>>
    ELSE IF Len(parts) = 1 THEN parts[1]
    ELSE parts[1] \o <<" ">> \o Join(Tail(parts))

\* The index of the first " " of s, 0 when it holds none.
RECURSIVE FirstSpace(_, _)
FirstSpace(s, i) ==
    IF i > Len(s) THEN 0 ELSE IF s[i] = " " THEN i ELSE FirstSpace(s, i + 1)

\* s.split(' ', 1)
Split1(s) ==
    LET i == FirstSpace(s, 1)
    IN IF i = 0 THEN <<s>> ELSE <<SubSeq(s, 1, i - 1), SubSeq(s, i + 1, Len(s))>>

\* The kv_pattern.finditer loop: the dict of the matches (a later match of a key
\* replaces an earlier one) and non_kv_parts, the text between them.
RECURSIVE ScanMessage(_, _, _, _, _)
ScanMessage(msg, i, data, parts, cur) ==
    IF i > Len(msg) THEN [data |-> data, parts |-> Append(parts, cur)]
    ELSE LET sep == IF i > 1 THEN cur \o <<" ">> ELSE cur
         IN IF msg[i].kv
            THEN ScanMessage(msg, i + 1, Put(data, msg[i].k, StrV(msg[i].v)),
                             Append(parts, sep), <<>>)
            ELSE ScanMessage(msg, i + 1, data, parts, sep \o msg[i].w)

\* The end of the \S+ run that starts at i (the index of its last chunk).
RECURSIVE RunEnd(_, _)
RunEnd(s, i) ==
    IF i + 1 <= Len(s) /\ s[i + 1] # " " THEN RunEnd(s, i + 1) ELSE i

\* re.search(r'connection from (\S+) to (\S+)', text) tried at position i.
ConnInfoAt(s, i) ==
    /\ i + 4 <= Len(s)
    /\ s[i] = "connection" /\ s[i + 1] = " " /\ s[i + 2] = "from" /\ s[i + 3] = " "
    /\ s[i + 4] # " "
    /\ LET j == RunEnd(s, i + 4)
       IN /\ j + 4 <= Len(s)
          /\ s[j + 1] = " " /\ s[j + 2] = "to" /\ s[j + 3] = " "
          /\ s[j + 4] # " "

ConnInfoMatches(s) == {i \in 1..Len(s) : ConnInfoAt(s, i)}

Min(set) == CHOOSE x \in set : \A y \in set : x <= y

\* The two groups of the leftmost match.
ConnInfoGroups(s) ==
    LET i == Min(ConnInfoMatches(s))
        j == RunEnd(s, i + 4)
    IN <<SubSeq(s, i + 4, j), SubSeq(s, j + 4, RunEnd(s, j + 4))>>

KnownOpTypes == {<<"BIND">>, <<"RESULT">>, <<"SRCH">>, <<"UNBIND">>, <<"EXT">>,
                 <<"Disconnect">>, <<"ADD">>, <<"DEL">>}

\* The numeric conversion of one value of the dict.
Coerce(v) ==
    IF v.ty # "str" THEN v
    ELSE IF IsDigit(v.s) THEN IntV(IntOfDigits(v.s))
    ELSE IF v.s # <<>> /\ v.s[1] = "-" /\ IsDigit(Tail(v.s))
         THEN IntV(0 - IntOfDigits(Tail(v.s)))
    ELSE v

\* Classify with the connection-info test made before the test of the first
\* word (a fault).
Classify_ConnInfoFirst(data, extra_text) ==
    IF extra_text # <<>>
    THEN LET parts == Split1(extra_text)
             word == parts[1]
             undashed == IF word[Len(word)] = "-"
                         THEN Strip(SubSeq(word, 1, Len(word) - 1)) ELSE word
             op_type == IF undashed = <<"closed">> THEN <<"Disconnect">> ELSE undashed
         IN IF ConnInfoMatches(extra_text) # {}
            THEN LET g == ConnInfoGroups(extra_text)
                 IN Put(Put(Put(Put(data, "type", S("CONNECTION_INFO")),
                                "source_ip", StrV(g[1])),
                            "destination_ip", StrV(g[2])),
                        "extra_text", StrV(extra_text))
            ELSE IF op_type \in KnownOpTypes
            THEN LET typed == Put(data, "type", StrV(op_type))
                 IN IF Len(parts) > 1
                    THEN Put(typed, "extra_text", StrV(LStrip(parts[2], {"-", " "})))
                    ELSE typed
            ELSE Put(Put(data, "type", S("INFO")), "extra_text", StrV(extra_text))
    ELSE IF {"err", "tag", "nentries"} \subseteq DOMAIN data
         THEN Put(data, "type", S("RESULT"))
         ELSE Put(data, "type", S("INFO"))

\* The classification of the extra text, before the numeric conversion.
Classify(data, extra_text) ==
    IF extra_text # <<>>
    THEN LET parts == Split1(extra_text)
             word == parts[1]
             undashed == IF word[Len(word)] = "-"
                         THEN Strip(SubSeq(word, 1, Len(word) - 1)) ELSE word
             op_type == IF undashed = <<"closed">> THEN <<"Disconnect">> ELSE undashed
         IN IF op_type \in KnownOpTypes
            THEN LET typed == Put(data, "type", StrV(op_type))
                 IN IF Len(parts) > 1
                    THEN Put(typed, "extra_text", StrV(LStrip(parts[2], {"-", " "})))
                    ELSE typed
            ELSE IF ConnInfoMatches(extra_text) # {}
            THEN LET g == ConnInfoGroups(extra_text)
                 IN Put(Put(Put(Put(data, "type", S("CONNECTION_INFO")),
                                "source_ip", StrV(g[1])),
                            "destination_ip", StrV(g[2])),
                        "extra_text", StrV(extra_text))
            ELSE Put(Put(data, "type", S("INFO")), "extra_text", StrV(extra_text))
    ELSE IF {"err", "tag", "nentries"} \subseteq DOMAIN data
         THEN Put(data, "type", S("RESULT"))
         ELSE Put(data, "type", S("INFO"))

parse_key_value_message(message) ==
    LET scan == ScanMessage(message, 1, EmptyDict, <<>>, <<>>)
        extra_text == Strip(Join(scan.parts))
        data == Classify(scan.data, extra_text)
    IN [k \in DOMAIN data |-> Coerce(data[k])]

(***************************************************************************)
(* parse_log_line.  A line is [shape, ts, msg]: shape says whether it      *)
(* matches LOG_LINE_RE, ts is the text between the brackets and msg the    *)
(* message after them.  The outcome is None, Raise (an exception leaves    *)
(* the function) or the parsed dict; the dict's "timestamp" entry is kept  *)
(* beside the others, as the field timestamp.                              *)
(***************************************************************************)
\* parse_log_line without the `if not timestamp` test (a fault): a line whose
\* timestamp is None is parsed all the same.
parse_log_line_NoTimestampTest(line) ==
    IF ~ line.shape THEN None
    ELSE LET timestamp == parse_timestamp(line.ts)
         IN IF timestamp = Raise THEN Raise
            ELSE [ty |-> "dict", data |-> parse_key_value_message(line.msg),
                  timestamp |-> timestamp]

parse_log_line(line) ==
    IF ~ line.shape THEN None
    ELSE LET timestamp == parse_timestamp(line.ts)
         IN IF timestamp = Raise THEN Raise
            ELSE IF timestamp = None THEN None
            ELSE [ty |-> "dict", data |-> parse_key_value_message(line.msg),
                  timestamp |-> timestamp]

(***************************************************************************)
(* The data model: Operation, Connection and Connection.add_operation.     *)
(* `data` is the whole parsed line, as build_data_model passes it.         *)
(***************************************************************************)
Operation(op_num, op_type, timestamp, data, extra_text) ==
    [op_num |-> op_num, op_type |-> op_type, timestamp |-> timestamp,
     data |-> data, extra_text |-> extra_text, result |-> None]

Connection(conn_num) ==
    [conn_num |-> conn_num, bind_timestamp |-> None, unbind_timestamp |-> None,
     bind_dn |-> None, successful_bind |-> FALSE, operations |-> EmptyDict,
     source_ip |-> None, destination_ip |-> None]

\* add_operation, op_type == "CONNECTION_INFO"
OnConnectionInfo(self, data) ==
    [self EXCEPT !.source_ip = Get(data.data, "source_ip"),
                 !.destination_ip = Get(data.data, "destination_ip")]

\* add_operation, op_type == "Disconnect"
OnDisconnect(self, timestamp) ==
    [self EXCEPT !.unbind_timestamp = timestamp]

\* BindDn with the two sources in the other order (a fault: the BIND's dn first).
BindDn_BindFirst(op, data) ==
    IF "dn" \in DOMAIN op.data.data THEN op.data.data["dn"] ELSE Get(data.data, "dn")

\* The DN a successful bind takes: the RESULT's, else the BIND's own.
BindDn(op, data) ==
    IF "dn" \in DOMAIN data.data THEN data.data["dn"] ELSE Get(op.data.data, "dn")

\* IsSuccessfulBind without the test of the operation's kind (a fault).
IsSuccessfulBind_AnyKind(op, data) ==
    Get(data.data, "err") = IntV(0)

\* Whether the RESULT `data` makes the operation it attaches to a successful bind.
IsSuccessfulBind(op, data) ==
    op.op_type = S("BIND") /\ Get(data.data, "err") = IntV(0)

\* OnResult that stores an unmatched RESULT as an Operation of its own (a fault).
OnResult_CreatesOperation(self, op_num, data) ==
    IF op_num \in DOMAIN self.operations
    THEN LET op == self.operations[op_num]
             attached == [self EXCEPT !.operations[op_num].result = data]
         IN IF IsSuccessfulBind(op, data)
            THEN [attached EXCEPT !.successful_bind = TRUE,
                                  !.bind_timestamp = op.timestamp,
                                  !.bind_dn = BindDn(op, data)]
            ELSE attached
    ELSE [self EXCEPT !.operations =
              Put(@, op_num, Operation(op_num, S("RESULT"), data.timestamp, data, None))]

\* OnResult that flips successful_bind instead of setting it (a fault).
OnResult_Toggles(self, op_num, data) ==
    IF op_num \in DOMAIN self.operations
    THEN LET op == self.operations[op_num]
             attached == [self EXCEPT !.operations[op_num].result = data]
         IN IF IsSuccessfulBind(op, data)
            THEN [attached EXCEPT !.successful_bind = ~ self.successful_bind,
                                  !.bind_timestamp = op.timestamp,
                                  !.bind_dn = BindDn(op, data)]
            ELSE attached
    ELSE self

\* add_operation, op_type == "RESULT"
OnResult(self, op_num, data) ==
    IF op_num \in DOMAIN self.operations
    THEN LET op == self.operations[op_num]
             attached == [self EXCEPT !.operations[op_num].result = data]
         IN IF IsSuccessfulBind(op, data)
            THEN [attached EXCEPT !.successful_bind = TRUE,
                                  !.bind_timestamp = op.timestamp,
                                  !.bind_dn = BindDn(op, data)]
            ELSE attached
    ELSE self

\* OnOperation without the `not in` test: the last event of an id wins (a fault).
OnOperation_LastWins(self, op_num, op_type, timestamp, data, extra_text) ==
    [self EXCEPT !.operations =
        Put(@, op_num, Operation(op_num, op_type, timestamp, data, extra_text))]

\* add_operation, any other op_type
OnOperation(self, op_num, op_type, timestamp, data, extra_text) ==
    IF op_num \notin DOMAIN self.operations
    THEN [self EXCEPT !.operations =
              Put(@, op_num, Operation(op_num, op_type, timestamp, data, extra_text))]
    ELSE self

\* add_operation that folds nothing into a closed connection (a fault).
add_operation_ClosedGate(self, op_num, op_type, timestamp, data, extra_text) ==
    IF op_type = S("CONNECTION_INFO") THEN OnConnectionInfo(self, data)
    ELSE IF op_type = S("Disconnect") THEN OnDisconnect(self, timestamp)
    ELSE IF op_num = None \/ self.unbind_timestamp # None THEN self
    ELSE IF op_type = S("RESULT") THEN OnResult(self, op_num, data)
    ELSE OnOperation(self, op_num, op_type, timestamp, data, extra_text)

add_operation(self, op_num, op_type, timestamp, data, extra_text) ==
    IF op_type = S("CONNECTION_INFO") THEN OnConnectionInfo(self, data)
    ELSE IF op_type = S("Disconnect") THEN OnDisconnect(self, timestamp)
    ELSE IF op_num = None THEN self
    ELSE IF op_type = S("RESULT") THEN OnResult(self, op_num, data)
    ELSE OnOperation(self, op_num, op_type, timestamp, data, extra_text)

(***************************************************************************)
(* The input: the lines a log may hold.  The line read as number n of the  *)
(* pass bears the second n in its timestamp, as an access log's            *)
(* timestamps advance.                                                     *)
(***************************************************************************)
ZoneZ == [z |-> TRUE, sign |-> 1, hh |-> 0, mm |-> 0]
Zone(sign, hh, mm) == [z |-> FALSE, sign |-> sign, hh |-> hh, mm |-> mm]

\* [10/Jun/2025:21:18:0n.1Z]
TsGood(n) ==
    [re |-> TRUE, day |-> 10, mon |-> "Jun", year |-> 2025, hour |-> 21,
     minute |-> 18, second |-> n, frac |-> <<"1">>, tz |-> ZoneZ]

\* Timestamp texts that do not parse: an unknown month, a text TIMESTAMP_RE does
\* not match (no zone suffix, a digit group of the wrong length), an hour and a
\* day out of range, a zone offset out of range.
TsBad(n) ==
    { [TsGood(n) EXCEPT !.mon = "Foo"],
      [TsGood(n) EXCEPT !.re = FALSE],
      [TsGood(n) EXCEPT !.hour = 25],
      [TsGood(n) EXCEPT !.day = 31],
      [TsGood(n) EXCEPT !.tz = Zone(1, 24, 0)] }

OpIds == {<<"0">>, <<"1">>}

BIND_dn == <<W(<<"BIND">>), KV("dn", <<"uid=a">>, TRUE)>>
BIND_nodn == <<W(<<"BIND">>), KV("method", <<"sasl">>, FALSE)>>
SRCH == <<W(<<"SRCH">>), KV("base", <<"dc=x">>, TRUE)>>
RESULT_ok == <<W(<<"RESULT">>), KV("err", <<"0">>, FALSE)>>
RESULT_ok_dn == <<W(<<"RESULT">>), KV("err", <<"0">>, FALSE), KV("dn", <<"uid=b">>, TRUE)>>
RESULT_err == <<W(<<"RESULT">>), KV("err", <<"4", "9">>, FALSE)>>
Closed == <<KV("fd", <<"1", "2">>, FALSE), W(<<"closed">>), W(<<"-">>), W(<<"U", "1">>)>>
Info == <<W(<<"TLS">>), W(<<"AES">>)>>
ConnInfoA == <<W(<<"connection">>), W(<<"from">>), W(<<"10.0.0.1">>),
               W(<<"to">>), W(<<"10.0.0.9">>)>>
ConnInfoB == <<W(<<"connection">>), W(<<"from">>), W(<<"10.0.0.2">>),
               W(<<"to">>), W(<<"10.0.0.8">>)>>

OpBodies == {BIND_dn, BIND_nodn, SRCH, RESULT_ok, RESULT_ok_dn, RESULT_err}

Conn(c) == KV("conn", c, FALSE)
Op(o) == KV("op", o, FALSE)

\* The messages of connection 1: every body on each operation id, the
\* connection-scoped lines (op=-1, or no op at all) and a RESULT without op.
Messages1 ==
    {<<Conn(<<"1">>), Op(o)>> \o b : o \in OpIds, b \in OpBodies}
    \cup {<<Conn(<<"1">>), Op(<<"-", "1">>)>> \o b : b \in {Closed, Info}}
    \cup {<<Conn(<<"1">>)>> \o b : b \in {ConnInfoA, ConnInfoB, RESULT_ok}}

\* The messages of connection 2: a session of one bind.
Messages2 ==
    {<<Conn(<<"2">>), Op(<<"0">>)>> \o b : b \in {BIND_dn, RESULT_ok}}
    \cup {<<Conn(<<"2">>), Op(<<"-", "1">>)>> \o Closed, <<Conn(<<"2">>)>> \o ConnInfoA}

\* Messages that name no connection.
Messages0 == {<<Op(<<"0">>)>> \o RESULT_ok, Closed, ConnInfoA}

Messages == Messages1 \cup Messages2 \cup Messages0

NoLine == [blank |-> TRUE, shape |-> FALSE, ts |-> TsGood(0), msg |-> <<>>]

GoodLines(n) ==
    {[blank |-> FALSE, shape |-> TRUE, ts |-> TsGood(n), msg |-> m] : m \in Messages}

\* Lines that lack the [timestamp] message shape, or whose timestamp does not parse.
ErrorLines(n) ==
    {[blank |-> FALSE, shape |-> FALSE, ts |-> TsGood(n),
      msg |-> <<Conn(<<"1">>)>> \o Closed]}
    \cup {[blank |-> FALSE, shape |-> TRUE, ts |-> t,
           msg |-> <<Conn(<<"1">>), Op(<<"0">>)>> \o BIND_dn] :
            t \in TsBad(n)}

Lines(n) == GoodLines(n) \cup ErrorLines(n) \cup {NoLine}

\* Every line of the input, and parse_log_line of each, computed once.
AllLines == UNION {Lines(n) : n \in 0..MaxLines}

ParseMemo == [line \in AllLines |-> parse_log_line(line)] @@ <<>>

(***************************************************************************)
(* build_data_model: one turn of its loop over the lines of the file.      *)
(* A line is [blank, shape, ts, msg]; blank says that line.strip() is      *)
(* empty.                                                                  *)
(***************************************************************************)

\* What the try block leaves in `parsed`, or Raise when the except clause ran.
Parsed(line) == ParseMemo[line]

\* FoldParsed where every Connection shares one operations dict, as a class
\* attribute would be shared (a fault).
FoldParsed_SharedOperations(conns, parsed) ==
    LET conn_id == Get(parsed.data, "conn")
        known == IF conn_id \in DOMAIN conns THEN conns
                 ELSE Put(conns, conn_id, Connection(conn_id))
        folded == add_operation(known[conn_id], Get(parsed.data, "op"),
                                Get(parsed.data, "type"), parsed.timestamp, parsed,
                                Get(parsed.data, "extra_text"))
    IN [c \in DOMAIN known |->
            IF c = conn_id THEN folded
            ELSE [known[c] EXCEPT !.operations = folded.operations]]

\* The registry after the line's event is folded in.
FoldParsed(conns, parsed) ==
    LET conn_id == Get(parsed.data, "conn")
        op_num == Get(parsed.data, "op")
        op_type == Get(parsed.data, "type")
        timestamp == parsed.timestamp
        extra_text == Get(parsed.data, "extra_text")
        known == IF conn_id \in DOMAIN conns THEN conns
                 ELSE Put(conns, conn_id, Connection(conn_id))
    IN [known EXCEPT ![conn_id] =
            add_operation(@, op_num, op_type, timestamp, parsed, extra_text)]

\* SkippedAs without the `'conn' not in parsed` test (a fault).
SkippedAs_NoConnTest(line, parsed) ==
    \/ line.blank
    \/ parsed = Raise
    \/ parsed = None

\* Whether the loop skips the line whose parse is `parsed` (one of its three
\* `continue`s runs).
SkippedAs(line, parsed) ==
    \/ line.blank
    \/ parsed = Raise
    \/ parsed = None
    \/ "conn" \notin DOMAIN parsed.data

Skipped(line) == SkippedAs(line, Parsed(line))

FoldLine(conns, line) ==
    LET parsed == Parsed(line)
    IN IF SkippedAs(line, parsed) THEN conns ELSE FoldParsed(conns, parsed)

(***************************************************************************)
(* The views of cli.py and data_model.py, as the set of the connection     *)
(* ids of their rows (the rows' order, by bind_timestamp, is left out).    *)
(***************************************************************************)
print_open_connections_table(conns) ==
    {c \in DOMAIN conns :
        conns[c].successful_bind /\ conns[c].unbind_timestamp = None}

print_src_ip_table(conns) ==
    {c \in DOMAIN conns :
        /\ conns[c].successful_bind
        /\ conns[c].unbind_timestamp # None
        /\ conns[c].bind_timestamp # None}

\* data_model.main without --query: the connections of the JSON output.
DefaultJsonOutput(conns) ==
    {c \in DOMAIN conns :
        conns[c].successful_bind /\ conns[c].unbind_timestamp # None}

(***************************************************************************)
(* The pass.                                                               *)
(***************************************************************************)
Init ==
    /\ connections = EmptyDict
    /\ clean = EmptyDict
    /\ nlines = 0
    /\ dropped = 0
    /\ last = NoLine
    /\ arg = Pending
    /\ ret = Pending

\* One turn of build_data_model's loop, on the next line of the file.
ReadLine(line) ==
    /\ nlines < MaxLines
    /\ connections' = FoldLine(connections, line)
    /\ clean' = IF line \in ErrorLines(nlines) THEN clean ELSE FoldLine(clean, line)
    /\ nlines' = nlines + 1
    /\ dropped' = IF line \in ErrorLines(nlines) THEN dropped + 1 ELSE dropped
    /\ last' = line
    /\ UNCHANGED <<arg, ret>>

Next == \E line \in Lines(nlines) : ReadLine(line)

Spec == Init /\ [][Next]_vars

(***************************************************************************)
(* parse_key_value_message called on its own, on a message made of result  *)
(* attributes, up to MaxHead words of free text, one more attribute and a  *)
(* rest of free text.                                                      *)
(***************************************************************************)
RECURSIVE SeqsUpTo(_, _)
SeqsUpTo(set, n) ==
    IF n = 0 THEN {<<>>}
    ELSE LET shorter == SeqsUpTo(set, n - 1)
         IN shorter \cup {Append(q, x) : q \in shorter, x \in set}

HeadWords ==
    {W(<<t>>) : t \in {"BIND", "RESULT", "SRCH", "UNBIND", "EXT", "ADD", "DEL",
                       "Disconnect", "closed", "foo"}}
      \cup {W(<<"closed", "-">>), W(<<"SRCH", "-">>), W(<<"BIND", "-", "-">>), W(<<"-">>)}

ResultAttrs ==
    { <<>>,
      <<KV("err", <<"0">>, FALSE), KV("tag", <<"9", "7">>, FALSE)>>,
      <<KV("err", <<"0">>, FALSE), KV("tag", <<"9", "7">>, FALSE),
        KV("nentries", <<"0">>, FALSE)>> }

ValueAttrs ==
    { <<>>,
      <<KV("dn", <<"1", "2", "3">>, FALSE)>>,
      <<KV("dn", <<"1", "2", "3">>, TRUE)>>,
      <<KV("dn", <<"uid=a">>, TRUE)>>,
      <<KV("dn", <<"-", "5">>, FALSE)>>,
      <<KV("dn", <<"-", "5">>, TRUE)>>,
      <<KV("dn", <<"-">>, FALSE)>>,
      <<KV("dn", <<"0", ".", "0">>, FALSE)>>,
      <<KV("dn", <<"1", "2", "a">>, FALSE)>> }

RestWords ==
    { <<>>,
      ConnInfoA,
      <<W(<<"connection">>), W(<<"from">>), W(<<"10.0.0.1">>)>> }

MessageTexts ==
    {r \o h \o v \o t : r \in ResultAttrs, h \in SeqsUpTo(HeadWords, MaxHead),
                         v \in ValueAttrs, t \in RestWords}

InitMessage ==
    /\ Init!1 /\ Init!2 /\ Init!3 /\ Init!4 /\ Init!5
    /\ arg \in MessageTexts
    /\ ret = Pending

CallParseMessage ==
    /\ ret = Pending
    /\ ret' = parse_key_value_message(arg)
    /\ UNCHANGED <<connections, clean, nlines, dropped, last, arg>>

SpecMessage == InitMessage /\ [][CallParseMessage]_vars

(***************************************************************************)
(* Properties.  In an action formula the event of the step is the line     *)
(* just read, last'.                                                       *)
(***************************************************************************)
\* The line was folded into the registry (none of the loop's `continue`s ran).
Folded(line) == ~ Skipped(line)

TypeOf(line) == Get(Parsed(line).data, "type")
ConnOf(line) == Get(Parsed(line).data, "conn")
OpOf(line) == Get(Parsed(line).data, "op")

\* The connection a folded line is about, before the line (a new one when the
\* registry does not hold it yet) and after it.
Before(line) ==
    IF ConnOf(line) \in DOMAIN connections
    THEN connections[ConnOf(line)] ELSE Connection(ConnOf(line))

After(line) == connections'[ConnOf(line)]

\* A folded line that add_operation takes as a RESULT (it has an operation id).
IsResult(line) ==
    Folded(line) /\ TypeOf(line) = S("RESULT") /\ OpOf(line) # None

\* A folded line that add_operation takes as the start of an operation.
IsOperation(line) ==
    /\ Folded(line)
    /\ TypeOf(line) \notin {S("RESULT"), S("CONNECTION_INFO"), S("Disconnect")}
    /\ OpOf(line) # None

IsDisconnect(line) ==
    Folded(line) /\ TypeOf(line) = S("Disconnect")

IsConnectionInfo(line) ==
    Folded(line) /\ TypeOf(line) = S("CONNECTION_INFO")

\* The bind fields of a connection.
BindFields(conn) == <<conn.successful_bind, conn.bind_dn, conn.bind_timestamp>>

\* C1: unbind_timestamp is set at most once per connection: it is None until the
\* first Disconnect, then that Disconnect's timestamp, and no later event (a
\* later Disconnect included) changes it.
C1_UnbindSetOnce ==
    [][\A c \in DOMAIN connections :
          /\ connections[c].unbind_timestamp # None
                => connections'[c].unbind_timestamp = connections[c].unbind_timestamp
          /\ (connections[c].unbind_timestamp = None
              /\ connections'[c].unbind_timestamp # None)
                => /\ IsDisconnect(last') /\ ConnOf(last') = c
                   /\ connections'[c].unbind_timestamp = Parsed(last').timestamp]_vars

\* C2: successful_bind, bind_dn and bind_timestamp only go from unset to set,
\* change only on a RESULT with err = 0 correlated to a BIND operation of the
\* connection, and are never reverted to unset.
C2_BindFieldsNeverReverted ==
    [][\A c \in DOMAIN connections :
          /\ connections[c].successful_bind => connections'[c].successful_bind
          /\ connections[c].bind_dn # None => connections'[c].bind_dn # None
          /\ connections[c].bind_timestamp # None
                => connections'[c].bind_timestamp # None
          /\ BindFields(connections'[c]) # BindFields(connections[c])
                => /\ IsResult(last') /\ ConnOf(last') = c
                   /\ Get(Parsed(last').data, "err") = IntV(0)
                   /\ OpOf(last') \in DOMAIN connections[c].operations
                   /\ connections[c].operations[OpOf(last')].op_type = S("BIND")]_vars

\* C3: a RESULT with err = 0 that matches, by operation id, a BIND operation of
\* its connection sets successful_bind, sets bind_timestamp to the BIND
\* operation's timestamp and bind_dn to the RESULT's dn if it has one, else to
\* the BIND's own dn; a RESULT that matches an operation of another kind, or
\* whose err is not 0, sets none of the three.
C3_SuccessfulBindResult ==
    [][(IsResult(last') /\ OpOf(last') \in DOMAIN Before(last').operations)
          => LET op == Before(last').operations[OpOf(last')]
                 result == Parsed(last').data
             IN IF op.op_type = S("BIND") /\ Get(result, "err") = IntV(0)
                THEN /\ After(last').successful_bind
                     /\ After(last').bind_timestamp = op.timestamp
                     /\ After(last').bind_dn =
                            IF "dn" \in DOMAIN result THEN result["dn"]
                            ELSE Get(op.data.data, "dn")
                ELSE BindFields(After(last')) = BindFields(Before(last'))]_vars

\* C3's case: a RESULT without dn made a bind successful; bind_dn is the BIND's
\* own dn and bind_timestamp the BIND's timestamp, which is not the RESULT's.
C3_Witness ==
    /\ IsResult(last)
    /\ "dn" \notin DOMAIN Parsed(last).data
    /\ connections[ConnOf(last)].successful_bind
    /\ connections[ConnOf(last)].bind_dn = S("uid=a")
    /\ connections[ConnOf(last)].bind_timestamp # Parsed(last).timestamp
    /\ connections[ConnOf(last)].operations[OpOf(last)].result = Parsed(last)

\* C4: a RESULT whose operation id is not among its connection's operations
\* creates no Operation and leaves every field of the connection as it was.
C4_OrphanResult ==
    [][(Folded(last') /\ TypeOf(last') = S("RESULT")
        /\ OpOf(last') \notin DOMAIN Before(last').operations)
          => After(last') = Before(last')]_vars

\* C4's case: a RESULT for operation 0 was read for a connection that holds
\* operations, none of them operation 0.
C4_Witness ==
    /\ IsResult(last)
    /\ connections[ConnOf(last)].operations # EmptyDict
    /\ OpOf(last) \notin DOMAIN connections[ConnOf(last)].operations

\* C5: the first event of an operation id wins: a later non-RESULT event with
\* an id the connection holds is ignored, every stored Operation keeps its kind,
\* timestamp, attributes and free text, and a later RESULT attaches to that
\* Operation and takes a successful bind's timestamp from it.
C5_FirstOperationWins ==
    [][/\ (IsOperation(last') /\ OpOf(last') \in DOMAIN Before(last').operations)
            => After(last') = Before(last')
       /\ \A c \in DOMAIN connections :
            \A o \in DOMAIN connections[c].operations :
                /\ o \in DOMAIN connections'[c].operations
                /\ [connections'[c].operations[o] EXCEPT !.result = None]
                     = [connections[c].operations[o] EXCEPT !.result = None]
       /\ (IsResult(last') /\ OpOf(last') \in DOMAIN Before(last').operations)
            => /\ After(last').operations[OpOf(last')].result = Parsed(last')
               /\ After(last').bind_timestamp # Before(last').bind_timestamp
                    => After(last').bind_timestamp
                         = Before(last').operations[OpOf(last')].timestamp]_vars

\* C5's case: a second BIND, with another dn and timestamp, was read for an
\* operation id whose first BIND the connection holds.
C5_Witness ==
    /\ IsOperation(last)
    /\ TypeOf(last) = S("BIND")
    /\ LET op == connections[ConnOf(last)].operations[OpOf(last)]
       IN /\ op.op_type = S("BIND")
          /\ op.timestamp # Parsed(last).timestamp
          /\ Get(op.data.data, "dn") # Get(Parsed(last).data, "dn")

\* C6: RESULT correlation is idempotent: in every state, folding a RESULT line
\* twice in a row yields the registry (the bind fields and the attached result
\* among it) that folding it once yields.
C6_ResultIdempotent ==
    \A line \in GoodLines(nlines) :
        (Folded(line) /\ TypeOf(line) = S("RESULT"))
            => LET once == FoldLine(connections, line)
               IN FoldLine(once, line) = once

\* C6's case: the RESULT just folded made a bind successful, and folding the
\* same line once more changes nothing.
C6_Witness ==
    /\ IsResult(last)
    /\ connections[ConnOf(last)].successful_bind
    /\ OpOf(last) \in DOMAIN connections[ConnOf(last)].operations
    /\ connections[ConnOf(last)].operations[OpOf(last)].op_type = S("BIND")
    /\ connections[ConnOf(last)].operations[OpOf(last)].result = Parsed(last)
    /\ Get(Parsed(last).data, "err") = IntV(0)
    /\ FoldLine(connections, last) = connections

\* A connection into which a BIND and nothing else was folded.
OnlyBind(c) ==
    LET ops == connections[c].operations
    IN /\ Cardinality(DOMAIN ops) = 1
       /\ \A o \in DOMAIN ops : ops[o].op_type = S("BIND")
       /\ [connections[c] EXCEPT !.operations = EmptyDict] = Connection(c)

\* C7: a connection with only a BIND (no RESULT) is in the registry with
\* successful_bind false and no result attached; it is in the open-connections
\* view and in neither view of the completed, successfully bound connections.
C7_OnlyBindIsOpen ==
    \A c \in DOMAIN connections :
        OnlyBind(c)
            => /\ ~ connections[c].successful_bind
               /\ \A o \in DOMAIN connections[c].operations :
                    connections[c].operations[o].result = None
               /\ c \in print_open_connections_table(connections)
               /\ c \notin print_src_ip_table(connections)
               /\ c \notin DefaultJsonOutput(connections)

\* C8: source_ip and destination_ip are None until a CONNECTION_INFO of the
\* connection is folded, and once set they are not changed by any later event
\* (a second CONNECTION_INFO with other addresses included).
C8_AddressesSetOnce ==
    [][\A c \in DOMAIN connections' :
          LET was == IF c \in DOMAIN connections THEN connections[c] ELSE Connection(c)
              now == connections'[c]
          IN /\ was.source_ip # None => now.source_ip = was.source_ip
             /\ was.destination_ip # None => now.destination_ip = was.destination_ip
             /\ <<now.source_ip, now.destination_ip>>
                    # <<was.source_ip, was.destination_ip>>
                  => IsConnectionInfo(last') /\ ConnOf(last') = c]_vars

\* C9: neither a Disconnect nor a successful bind gates the fold: on a
\* connection that is closed or bound, an event with a new operation id still
\* inserts its Operation, a RESULT still attaches to its Operation, and a RESULT
\* with err = 0 for a BIND still sets the bind fields.
C9_FoldedAfterClose ==
    [][(Folded(last')
        /\ (Before(last').unbind_timestamp # None \/ Before(last').successful_bind))
          => LET o == OpOf(last')
                 ops == Before(last').operations
             IN /\ (IsOperation(last') /\ o \notin DOMAIN ops)
                    => /\ o \in DOMAIN After(last').operations
                       /\ After(last').operations[o] =
                            Operation(o, TypeOf(last'), Parsed(last').timestamp,
                                      Parsed(last'), Get(Parsed(last').data, "extra_text"))
                /\ (IsResult(last') /\ o \in DOMAIN ops)
                    => /\ After(last').operations[o].result = Parsed(last')
                       /\ (ops[o].op_type = S("BIND")
                           /\ Get(Parsed(last').data, "err") = IntV(0))
                            => /\ After(last').successful_bind
                               /\ After(last').bind_timestamp = ops[o].timestamp
                               /\ After(last').bind_dn =
                                    IF "dn" \in DOMAIN Parsed(last').data
                                    THEN Parsed(last').data["dn"]
                                    ELSE Get(ops[o].data.data, "dn")]_vars

\* C9's case: a BIND read after the connection's Disconnect was stored, and the
\* RESULT just read made it the connection's successful bind.
C9_Witness ==
    /\ IsResult(last)
    /\ LET conn == connections[ConnOf(last)]
       IN /\ conn.unbind_timestamp # None
          /\ conn.successful_bind
          /\ OpOf(last) \in DOMAIN conn.operations
          /\ conn.operations[OpOf(last)].result = Parsed(last)
          /\ conn.unbind_timestamp.s < conn.operations[OpOf(last)].timestamp.s
          /\ conn.bind_timestamp = conn.operations[OpOf(last)].timestamp

HasNoConn(line) ==
    /\ ~ line.blank
    /\ Parsed(line) \notin {None, Raise}
    /\ "conn" \notin DOMAIN Parsed(line).data

\* C11: an event without a connection id is skipped entirely, whatever its
\* kind: it creates no Connection and changes no Connection or Operation.
C11_NoConnSkipped ==
    [][HasNoConn(last') => connections' = connections]_vars

\* C11's case: a Disconnect without conn was read while the registry held an
\* open connection.
C11_Witness ==
    /\ HasNoConn(last)
    /\ TypeOf(last) = S("Disconnect")
    /\ \E c \in DOMAIN connections : connections[c].unbind_timestamp = None

\* C16: a Connection with successful_bind owns a BIND Operation whose attached
\* result has err = 0, also after a later RESULT for that operation.
C16_BindJustifiedByResult ==
    \A c \in DOMAIN connections :
        connections[c].successful_bind
            => \E o \in DOMAIN connections[c].operations :
                 LET op == connections[c].operations[o]
                 IN /\ op.op_type = S("BIND")
                    /\ op.result # None
                    /\ Get(op.result.data, "err") = IntV(0)

\* C16 as amended: a Connection with successful_bind owns a BIND Operation that
\* has a result attached and gave bind_timestamp; that result has err = 0 in the
\* step that sets the flag, and a later RESULT may replace it.
C16_BindJustifiedWhenSet ==
    [][\A c \in DOMAIN connections' :
          connections'[c].successful_bind
            => \E o \in DOMAIN connections'[c].operations :
                 LET op == connections'[c].operations[o]
                 IN /\ op.op_type = S("BIND")
                    /\ op.result # None
                    /\ connections'[c].bind_timestamp = op.timestamp
                    /\ (c \notin DOMAIN connections \/ ~ connections[c].successful_bind)
                         => Get(op.result.data, "err") = IntV(0)]_vars

\* C16's case: the bind is successful and the RESULT now attached to its BIND
\* has another err than 0.
C16_Witness ==
    \E c \in DOMAIN connections :
        /\ connections[c].successful_bind
        /\ \A o \in DOMAIN connections[c].operations :
             LET op == connections[c].operations[o]
             IN op.op_type = S("BIND")
                  => op.result # None /\ Get(op.result.data, "err") # IntV(0)

\* C17: connections are isolated and never evicted: a step changes at most the
\* Connection its event names, and a connection id in the registry stays there
\* with its id.
C17_Isolation ==
    [][/\ \A c \in DOMAIN connections :
            /\ c \in DOMAIN connections'
            /\ connections'[c].conn_num = c
            /\ (Skipped(last') \/ c # ConnOf(last'))
                  => connections'[c] = connections[c]
       /\ \A c \in DOMAIN connections' \ DOMAIN connections :
            Folded(last') /\ c = ConnOf(last')]_vars

\* C17's case: two connections hold an operation 0; the RESULT just read for
\* the one was attached there, and the other's operation 0 has no result.
C17_Witness ==
    /\ IsResult(last)
    /\ \E c, d \in DOMAIN connections :
        /\ c # d
        /\ c = ConnOf(last)
        /\ OpOf(last) \in DOMAIN connections[c].operations
        /\ OpOf(last) \in DOMAIN connections[d].operations
        /\ connections[c].operations[OpOf(last)].result = Parsed(last)
        /\ connections[d].operations[OpOf(last)].result = None

\* C18: no Connection's operations hold a negative operation id.
C18_NoNegativeOperationId ==
    \A c \in DOMAIN connections :
        \A o \in DOMAIN connections[c].operations :
            o.ty = "int" => o.n >= 0

(***************************************************************************)
(* parse_timestamp called on its own, on a timestamp text that matches     *)
(* TIMESTAMP_RE and whose fields are in range.                             *)
(***************************************************************************)
FracDigits == <<"7", "1", "1", "8", "5", "9", "3", "2", "4">>

TimestampTexts ==
    { [re |-> TRUE, day |-> d, mon |-> m, year |-> y, hour |-> h, minute |-> 6,
       second |-> 44, frac |-> SubSeq(FracDigits, 1, n), tz |-> z] :
        d \in {1, 10}, m \in {"Jan", "jun", "Dec"}, y \in {2024, 2025},
        h \in {0, 4, 9, 11, 23}, n \in {0, 1, 6, MaxFrac},
        z \in {ZoneZ, Zone(1, 2, 0), Zone(-1, 5, 0), Zone(1, 5, 30)} }

InitTimestamp ==
    /\ Init!1 /\ Init!2 /\ Init!3 /\ Init!4 /\ Init!5
    /\ arg \in TimestampTexts
    /\ ret = Pending

CallParseTimestamp ==
    /\ ret = Pending
    /\ ret' = parse_timestamp(arg)
    /\ UNCHANGED <<connections, clean, nlines, dropped, last, arg>>

SpecTimestamp == InitTimestamp /\ [][CallParseTimestamp]_vars

(***************************************************************************)
(* Properties of parse_key_value_message, stated on the message arg and    *)
(* the dict ret that the call returned.                                    *)
(***************************************************************************)
IsWord(t) == ~ t.kv

\* The words of a message's free text, and the keys of its attributes.
FreeWords(msg) == SelectSeq(msg, IsWord)
AttrKeys(msg) == {msg[i].k : i \in {j \in 1..Len(msg) : msg[j].kv}}

Kinds == {"BIND", "RESULT", "SRCH", "UNBIND", "EXT", "ADD", "DEL", "Disconnect",
          "CONNECTION_INFO", "INFO"}

\* The first token of the free text, one trailing "-" stripped and closed
\* written as Disconnect.
FirstToken(msg) ==
    LET w == FreeWords(msg)[1].w
        u == IF w[Len(w)] = "-" THEN SubSeq(w, 1, Len(w) - 1) ELSE w
    IN IF u = <<"closed">> THEN <<"Disconnect">> ELSE u

\* The free text holds "connection from <ip> to <ip>".
HasConnPhrase(msg) ==
    \E i \in 1..(Len(msg) - 4) :
        /\ \A j \in i..(i + 4) : IsWord(msg[j])
        /\ msg[i].w = <<"connection">>
        /\ msg[i + 1].w = <<"from">>
        /\ msg[i + 3].w = <<"to">>

\* The kind the rules give a message, taken in their order.
KindByRule(msg) ==
    IF FreeWords(msg) # <<>>
    THEN IF FirstToken(msg) \in {<<k>> : k \in Kinds \ {"CONNECTION_INFO", "INFO"}}
         THEN FirstToken(msg)
         ELSE IF HasConnPhrase(msg) THEN <<"CONNECTION_INFO">>
         ELSE <<"INFO">>
    ELSE IF {"err", "tag", "nentries"} \subseteq AttrKeys(msg)
         THEN <<"RESULT">>
         ELSE <<"INFO">>

\* C13: the classifier is total and follows its rules in priority order: every
\* message gets exactly one kind of the ten, the first token's when it is a
\* known kind, else CONNECTION_INFO for a connection phrase, else INFO; and
\* without free text RESULT exactly when err, tag and nentries are all there.
C13_ClassifierRules ==
    ret # Pending
        => /\ ret # Raise
           /\ "type" \in DOMAIN ret
           /\ ret["type"] \in {S(k) : k \in Kinds}
           /\ ret["type"] = StrV(KindByRule(arg))

\* C13's case: a message whose first token, dash stripped, is a known kind and
\* whose free text also holds a connection phrase was classified by its token.
C13_Witness ==
    /\ ret # Pending
    /\ FreeWords(arg) # <<>>
    /\ FreeWords(arg)[1].w = <<"SRCH", "-">>
    /\ HasConnPhrase(arg)
    /\ ret["type"] = S("SRCH")

\* C14: an unquoted value of digits, or of "-" and digits, is stored as an
\* integer; a double-quoted value stays the string between its quotes, also
\* when it is all digits; every other value stays a string.
C14_ValueTyping ==
    ret # Pending
        => \A i \in 1..Len(arg) :
             arg[i].kv =>
                ret[arg[i].k] =
                    IF ~ arg[i].q /\ IsDigit(arg[i].v)
                        THEN IntV(IntOfDigits(arg[i].v))
                    ELSE IF ~ arg[i].q /\ arg[i].v # <<>> /\ arg[i].v[1] = "-"
                              /\ IsDigit(Tail(arg[i].v))
                        THEN IntV(0 - IntOfDigits(Tail(arg[i].v)))
                    ELSE StrV(arg[i].v)

(***************************************************************************)
(* Properties of parse_timestamp, stated on the text arg and the datetime  *)
(* ret that the call returned.                                             *)
(***************************************************************************)
\* The offset a text's zone denotes, in minutes: Z is 0.
ZoneMinutes(ts) == IF ts.tz.z THEN 0 ELSE ts.tz.sign * (ts.tz.hh * 60 + ts.tz.mm)

\* The first six digits of the fraction, right-padded with zeros, as a number.
RECURSIVE Pow10(_)
Pow10(n) == IF n = 0 THEN 1 ELSE 10 * Pow10(n - 1)

SubSecond(ts) ==
    LET n == IF Len(ts.frac) < 6 THEN Len(ts.frac) ELSE 6
    IN IntOfDigits(SubSeq(ts.frac, 1, n)) * Pow10(6 - n)

\* The instant a text denotes: its wall clock less the zone's offset.
TextInstant(ts) ==
    <<(ToOrdinal(ts.year, MONTH_MAP(Capitalize(ts.mon)), ts.day) * 24 + ts.hour) * 60
          + ts.minute - ZoneMinutes(ts),
      ts.second, SubSecond(ts)>>

\* C15: parse_timestamp returns the instant whose UTC time is the wall clock
\* less sign * (HH h + MM min), Z being offset 0, with the first six digits of
\* the fraction, zero-padded, as the sub-second part; it keeps the offset, and
\* texts that denote one instant under different offsets parse to equal instants.
C15_TimestampInstant ==
    ret # Pending
        => /\ ret.ty = "dt"
           /\ ret.off = ZoneMinutes(arg)
           /\ ret.us = SubSecond(arg)
           /\ UtcInstant(ret) = TextInstant(arg)
           /\ \A other \in TimestampTexts :
                TextInstant(other) = TextInstant(arg)
                    => DatetimeEq(ret, parse_timestamp(other))

\* C15's case: 10/Jun/2025:04:06:44.711859-0500 was parsed, with offset -0500,
\* and equals what 11:06:44.711859+0200 and 09:06:44.711859Z parse to.
C15_Witness ==
    /\ ret # Pending
    /\ arg = [re |-> TRUE, day |-> 10, mon |-> "jun", year |-> 2025, hour |-> 4,
              minute |-> 6, second |-> 44, frac |-> SubSeq(FracDigits, 1, 6),
              tz |-> Zone(-1, 5, 0)]
    /\ ret.off = -300
    /\ ret.us = 711859
    /\ DatetimeEq(ret, parse_timestamp([arg EXCEPT !.hour = 11, !.tz = Zone(1, 2, 0)]))
    /\ DatetimeEq(ret, parse_timestamp([arg EXCEPT !.hour = 9, !.tz = ZoneZ]))

====
